---- MODULE Spec2Model ----
(***************************************************************************)
(* Model of the API monitoring agent (monitoring_agent.py) and of the      *)
(* collector loop (monitor.py).                                            *)
(*                                                                         *)
(* Units.  Time is in whole seconds (datetime.now() truncated).  Response  *)
(* times are in tenths of a second, so 0.5 s is 5 and the default latency  *)
(* threshold 2.0 s is 20.  A float mean, rate or median is the exact       *)
(* rational <<numerator, denominator>>; comparisons cross-multiply.        *)
(* The endpoint None is the string "None".  An alert id, an f-string made  *)
(* of a prefix, an optional endpoint and a timestamp, is the triple of     *)
(* those parts (the formatting is injective on them).                      *)
(***************************************************************************)
EXTENDS Integers, Sequences, FiniteSets, TLC

VARIABLES
    metrics_history,    \* MonitoringAgent.metrics_history
    alerts,             \* MonitoringAgent.alerts
    baseline_metrics,   \* MonitoringAgent.baseline_metrics
    now,                \* the wall clock read by datetime.now()
    monitoring_active,  \* APIMonitor.monitoring_active
    session,            \* APIMonitor.session: "none", "open" or "closed"
    pc,                 \* position of the start_monitoring coroutine
    probes,             \* the _check_endpoint tasks of the running cycle
    added,              \* history variable: every sample ever passed to add_metric
    last_op,            \* history variable: the last operation and its argument
    env                 \* environment bookkeeping (budgets of the exploration)

vars == <<metrics_history, alerts, baseline_metrics, now, monitoring_active,
          session, pc, probes, added, last_op, env>>

agentVars == <<metrics_history, alerts, baseline_metrics>>
monitorVars == <<monitoring_active, session, pc, probes>>

(***************************************************************************)
(* Program constants                                                       *)
(***************************************************************************)
HISTORY_CAP == 1000
MIN_ANALYSIS == 10
ANALYSIS_WINDOW == 50
MIN_ANOMALY == 20
HEALTH_WINDOW == 100
SLOW_COUNT_MIN == 3
DEDUP_SECONDS == 300
ACTIVE_SECONDS == 3600
SECONDS_PER_DAY == 86400
SECONDS_PER_HOUR == 3600
MANY_ALERTS == 5
SLOW_DEDUCTION == 20
ERROR_DEDUCTION == 30
ALERTS_DEDUCTION == 15
HEALTHY_MIN == 80
DEGRADED_MIN == 60
TREND_MIN == 20
STATUS_REPORT_HOURS == 24
response_time_threshold == 20
error_rate_threshold_pct == 5
critical_error_rate_pct == 10
anomaly_sensitivity == 2
check_interval == 30
request_timeout == 100

NoEndpoint == "None"
SLOW_TITLE == "Slow Response Times Detected"
ERROR_TITLE == "High Error Rate Detected"
ANOMALY_TITLE == "Response Time Anomalies Detected"

\* self.endpoints, in list order
endpoints == <<"/", "/health", "/regions", "/wines", "/search/wines">>

(***************************************************************************)
(* Sequence helpers                                                        *)
(***************************************************************************)
Min2(a, b) == IF a < b THEN a ELSE b

\* s[-k:] of Python for k > 0
Tail_k(s, k) == IF Len(s) <= k THEN s ELSE SubSeq(s, Len(s) - k + 1, Len(s))

RECURSIVE SumRT(_)
SumRT(s) == IF s = <<>> THEN 0
            ELSE s[Len(s)].response_time + SumRT(SubSeq(s, 1, Len(s) - 1))

\* statistics.mean of the response times, as a rational
Mean(s) == <<SumRT(s), Len(s)>>

\* dict keys in insertion order: the endpoints of s by first occurrence
DictKeys(s) ==
    LET positions == [i \in 1..Len(s) |-> i]
        first == SelectSeq(positions,
                           LAMBDA i : \A j \in 1..(i - 1) : s[j].endpoint # s[i].endpoint)
    IN  [k \in 1..Len(first) |-> s[first[k]].endpoint]

CountFor(s, e) == Cardinality({i \in 1..Len(s) : s[i].endpoint = e})

EndpointsIn(s) == {s[i].endpoint : i \in 1..Len(s)}

\* timedelta.seconds: the seconds field of the normalised (days, seconds)
\* pair, i.e. the difference modulo one day
TimedeltaSeconds(d) == d % SECONDS_PER_DAY

(***************************************************************************)
(* MonitoringAgent: the analysis pipeline as functions of (state, input)   *)
(***************************************************************************)

\* MetricData(timestamp, endpoint, response_time, status_code, error_count),
\* request_count left at its dataclass default
MetricData(ts, ep, rt, sc, ec) ==
    [timestamp |-> ts, endpoint |-> ep, response_time |-> rt,
     status_code |-> sc, error_count |-> ec, request_count |-> 1]

\* variant: no stored alert counts as recent
IsRecentAlert_Never(a, t) == FALSE

\* the test of the recent_alerts comprehension in _add_alert
IsRecentAlert(a, t) == TimedeltaSeconds(t - a.timestamp) < DEDUP_SECONDS

\* variant: duplicates recognised by id (which embeds the creation time)
IsSimilarAlert_ById(a, alert) == a.id = alert.id

\* variant: an alert of another level is not a duplicate
IsSimilarAlert_WithLevel(a, alert) ==
    a.title = alert.title /\ a.endpoint = alert.endpoint /\ a.level = alert.level

\* the test of the similar_alerts comprehension in _add_alert
IsSimilarAlert(a, alert) == a.title = alert.title /\ a.endpoint = alert.endpoint

\* variant: every alert is appended
add_alert_Always(al, alert, t) == Append(al, alert)

\* variant: a new alert takes the place of the similar recent ones
add_alert_ReplaceSimilar(al, alert, t) ==
    Append(SelectSeq(al, LAMBDA a : ~(IsRecentAlert(a, t) /\ IsSimilarAlert(a, alert))), alert)

\* MonitoringAgent._add_alert: the alert list after the call at clock t
add_alert(al, alert, t) ==
    LET recent_alerts == SelectSeq(al, LAMBDA a : IsRecentAlert(a, t))
        similar_alerts == SelectSeq(recent_alerts, LAMBDA a : IsSimilarAlert(a, alert))
    IN  IF similar_alerts = <<>> THEN Append(al, alert) ELSE al

IsSlow(m) == m.response_time > response_time_threshold

SlowAlert(endpoint, count, avg, t) ==
    [id |-> <<"slow_response", endpoint, t>>,
     timestamp |-> t,
     level |-> "warning",
     title |-> SLOW_TITLE,
     endpoint |-> endpoint,
     metrics |-> [avg_response_time |-> avg, slow_count |-> count]]

\* the loop "for endpoint, count in endpoint_counts.items()" of
\* _analyze_response_times, over the keys still to visit
RECURSIVE SlowLoop(_, _, _, _, _)
SlowLoop(al, keys, slow_endpoints, avg, t) ==
    IF keys = <<>> THEN al
    ELSE LET endpoint == Head(keys)
             count == CountFor(slow_endpoints, endpoint)
             al2 == IF count >= SLOW_COUNT_MIN
                    THEN add_alert(al, SlowAlert(endpoint, count, avg, t), t)
                    ELSE al
         IN  SlowLoop(al2, Tail(keys), slow_endpoints, avg, t)

\* MonitoringAgent._analyze_response_times
analyze_response_times(al, metrics, t) ==
    LET avg_response_time == Mean(metrics)
        slow_endpoints == SelectSeq(metrics, IsSlow)
    IN  IF slow_endpoints # <<>>
        THEN SlowLoop(al, DictKeys(slow_endpoints), slow_endpoints, avg_response_time, t)
        ELSE al

\* variant: a failed request (status_code 0) is an error too
IsErrorStatus_OrZero(m) == m.status_code >= 400 \/ m.status_code = 0

\* the test m.status_code >= 400 of the error counts
IsErrorStatus(m) == m.status_code >= 400

\* error_rate > self.error_rate_threshold, the rate being errors / total
RateExceeds(errors, total, pct) == errors * 100 > pct * total

ErrorAlert(error_requests, total_requests, t) ==
    [id |-> <<"high_error_rate", "", t>>,
     timestamp |-> t,
     level |-> IF RateExceeds(Len(error_requests), total_requests, critical_error_rate_pct)
               THEN "critical" ELSE "warning",
     title |-> ERROR_TITLE,
     endpoint |-> NoEndpoint,
     metrics |-> [error_rate |-> <<Len(error_requests), total_requests>>,
                  error_endpoints |-> [e \in EndpointsIn(error_requests) |->
                                          CountFor(error_requests, e)]]]

\* MonitoringAgent._analyze_error_rates
analyze_error_rates(al, metrics, t) ==
    LET total_requests == Len(metrics)
        error_requests == SelectSeq(metrics, IsErrorStatus)
    IN  IF total_requests > 0
           /\ RateExceeds(Len(error_requests), total_requests, error_rate_threshold_pct)
        THEN add_alert(al, ErrorAlert(error_requests, total_requests, t), t)
        ELSE al

\* n * (x - mean) for a sample x of a window with n samples of sum s
Dev(x, n, s) == n * x - s

RECURSIVE SumSqDev(_, _, _)
SumSqDev(w, n, s) ==
    IF w = <<>> THEN 0
    ELSE Dev(w[Len(w)].response_time, n, s) * Dev(w[Len(w)].response_time, n, s)
         + SumSqDev(SubSeq(w, 1, Len(w) - 1), n, s)

\* variant: the z-score is compared without the test std_rt > 0
IsOutlierWith_NoStdGuard(m, n, s, ssd, sensitivity) ==
    \/ sensitivity < 0
    \/ Dev(m.response_time, n, s) * Dev(m.response_time, n, s) * (n - 1)
         > sensitivity * sensitivity * ssd

\* std_rt > 0 and abs((x - mean_rt) / std_rt) > sensitivity, with
\* std_rt^2 = ssd / (n^2 (n - 1)): both sides squared and cleared of
\* fractions (an absolute value exceeds every negative sensitivity)
IsOutlierWith(m, n, s, ssd, sensitivity) ==
    /\ ssd > 0
    /\ \/ sensitivity < 0
       \/ Dev(m.response_time, n, s) * Dev(m.response_time, n, s) * (n - 1)
            > sensitivity * sensitivity * ssd

\* the outlier test at the default sensitivity
IsOutlier(m, n, s, ssd) == IsOutlierWith(m, n, s, ssd, anomaly_sensitivity)

AnomalyAlert(outliers, mean_rt, variance, t) ==
    [id |-> <<"anomaly_detected", "", t>>,
     timestamp |-> t,
     level |-> "warning",
     title |-> ANOMALY_TITLE,
     endpoint |-> NoEndpoint,
     metrics |-> [outlier_count |-> Len(outliers),
                  mean_response_time |-> mean_rt,
                  variance |-> variance]]

\* variant: the anomaly check shares the minimum of _analyze_metrics (10)
AnomalyWindowOk_Min10(metrics) == Len(metrics) >= MIN_ANALYSIS

\* the early return of _detect_anomalies
AnomalyWindowOk(metrics) == Len(metrics) >= MIN_ANOMALY

\* MonitoringAgent._detect_anomalies on an agent whose anomaly_sensitivity
\* attribute has the given value
detect_anomalies_with(al, metrics, t, sensitivity) ==
    IF ~AnomalyWindowOk(metrics) THEN al
    ELSE LET n == Len(metrics)
             s == SumRT(metrics)
             ssd == IF n > 1 THEN SumSqDev(metrics, n, s) ELSE 0
             outliers == SelectSeq(metrics, LAMBDA m : IsOutlierWith(m, n, s, ssd, sensitivity))
         IN  IF outliers # <<>>
             THEN add_alert(al, AnomalyAlert(outliers, <<s, n>>, <<ssd, n * n * (n - 1)>>, t), t)
             ELSE al

\* MonitoringAgent._detect_anomalies at the default sensitivity
detect_anomalies(al, metrics, t) ==
    detect_anomalies_with(al, metrics, t, anomaly_sensitivity)

\* the k-th smallest response time of s (1-based), as sorted(s)[k-1]
KthSmallest(s, k) ==
    CHOOSE v \in {s[i].response_time : i \in 1..Len(s)} :
        /\ Cardinality({i \in 1..Len(s) : s[i].response_time < v}) < k
        /\ Cardinality({i \in 1..Len(s) : s[i].response_time <= v}) >= k

\* statistics.median of the response times, as a rational
Median(s) ==
    LET n == Len(s)
    IN  IF n % 2 = 1 THEN <<KthSmallest(s, (n + 1) \div 2), 1>>
        ELSE <<KthSmallest(s, n \div 2) + KthSmallest(s, n \div 2 + 1), 2>>

BaselineEntry(endpoint_metrics_list, t) ==
    [avg_response_time |-> Mean(endpoint_metrics_list),
     median_response_time |-> Median(endpoint_metrics_list),
     success_rate |-> <<Cardinality({i \in 1..Len(endpoint_metrics_list) :
                                       endpoint_metrics_list[i].status_code < 400}),
                        Len(endpoint_metrics_list)>>,
     last_updated |-> t]

\* variant: an endpoint's entry is computed once and kept
update_baselines_KeepFirst(bl, metrics, t) ==
    [e \in (DOMAIN bl) \cup EndpointsIn(metrics) |->
        IF e \in DOMAIN bl
        THEN bl[e]
        ELSE BaselineEntry(SelectSeq(metrics, LAMBDA m : m.endpoint = e), t)]

\* MonitoringAgent._update_baselines: entries of endpoints in the window are
\* assigned, the other keys of the dict are left as they were
update_baselines(bl, metrics, t) ==
    [e \in (DOMAIN bl) \cup EndpointsIn(metrics) |->
        IF e \in EndpointsIn(metrics)
        THEN BaselineEntry(SelectSeq(metrics, LAMBDA m : m.endpoint = e), t)
        ELSE bl[e]]

\* the early return of _analyze_metrics
AnalysisRuns(h) == Len(h) >= MIN_ANALYSIS

\* MonitoringAgent._analyze_metrics: the new (alerts, baseline_metrics)
analyze_metrics(h, al, bl, t) ==
    IF ~AnalysisRuns(h) THEN [alerts |-> al, baseline_metrics |-> bl]
    ELSE LET recent_metrics == Tail_k(h, ANALYSIS_WINDOW)
             al1 == analyze_response_times(al, recent_metrics, t)
             al2 == analyze_error_rates(al1, recent_metrics, t)
             al3 == detect_anomalies(al2, recent_metrics, t)
         IN  [alerts |-> al3,
              baseline_metrics |-> update_baselines(bl, recent_metrics, t)]

\* variant: the cap keeps the first HISTORY_CAP samples, h[:1000]
AppendCapped_KeepOldest(h, metric) ==
    LET h1 == Append(h, metric)
    IN  IF Len(h1) > HISTORY_CAP THEN SubSeq(h1, 1, HISTORY_CAP) ELSE h1

\* the append and the cap of add_metric
AppendCapped(h, metric) ==
    LET h1 == Append(h, metric)
    IN  IF Len(h1) > HISTORY_CAP THEN Tail_k(h1, HISTORY_CAP) ELSE h1

\* variant: add_metric only appends, the analysis is left to a later call
add_metric_AppendOnly(h, al, bl, metric, t) ==
    [metrics_history |-> AppendCapped(h, metric), alerts |-> al, baseline_metrics |-> bl]

\* MonitoringAgent.add_metric: the new agent state
add_metric(h, al, bl, metric, t) ==
    LET h1 == AppendCapped(h, metric)
        r == analyze_metrics(h1, al, bl, t)
    IN  [metrics_history |-> h1, alerts |-> r.alerts,
         baseline_metrics |-> r.baseline_metrics]

\* variant: an alert exactly days old is kept
clear_old_alerts_KeepBoundary(al, days, t) ==
    LET cutoff_time == t - days * SECONDS_PER_DAY
    IN  SelectSeq(al, LAMBDA alert : alert.timestamp >= cutoff_time)

\* MonitoringAgent.clear_old_alerts(days)
clear_old_alerts(al, days, t) ==
    LET cutoff_time == t - days * SECONDS_PER_DAY
    IN  SelectSeq(al, LAMBDA alert : alert.timestamp > cutoff_time)

\* an insight string: its fixed text and the endpoint formatted into it
Insight(text, endpoint) == [insight |-> text, endpoint |-> endpoint]

\* statistics.mean of the response times of endpoint e in metrics
EndpointAvg(metrics, e) == Mean(SelectSeq(metrics, LAMBDA m : m.endpoint = e))

\* p < q for rationals with positive denominators
RatLess(p, q) == p[1] * q[2] < q[1] * p[2]

\* min(endpoint_avgs.items(), key=...): the first key, in dict order, whose
\* average no other key undercuts
BestEndpoint(metrics) ==
    LET keys == DictKeys(metrics)
        i == CHOOSE i \in 1..Len(keys) :
                 /\ \A j \in 1..Len(keys) :
                        ~RatLess(EndpointAvg(metrics, keys[j]), EndpointAvg(metrics, keys[i]))
                 /\ \A j \in 1..(i - 1) :
                        RatLess(EndpointAvg(metrics, keys[i]), EndpointAvg(metrics, keys[j]))
    IN  keys[i]

\* max(endpoint_avgs.items(), key=...): the first key, in dict order, whose
\* average no other key exceeds
WorstEndpoint(metrics) ==
    LET keys == DictKeys(metrics)
        i == CHOOSE i \in 1..Len(keys) :
                 /\ \A j \in 1..Len(keys) :
                        ~RatLess(EndpointAvg(metrics, keys[i]), EndpointAvg(metrics, keys[j]))
                 /\ \A j \in 1..(i - 1) :
                        RatLess(EndpointAvg(metrics, keys[j]), EndpointAvg(metrics, keys[i]))
    IN  keys[i]

\* len(recent_metrics) > len(metrics) * 0.8, the recent ones being those
\* with timestamp > now - 1 hour
HighActivity(metrics, t) ==
    LET recent_metrics == SelectSeq(metrics, LAMBDA m : m.timestamp > t - SECONDS_PER_HOUR)
    IN  Len(recent_metrics) * 5 > Len(metrics) * 4

\* the trend insight: second_avg > first_avg * 1.2, else second_avg <
\* first_avg * 0.8, over the two halves of at least 20 samples
Trend(metrics) ==
    IF Len(metrics) < TREND_MIN THEN <<>>
    ELSE LET half == Len(metrics) \div 2
             first_half == SubSeq(metrics, 1, half)
             second_half == SubSeq(metrics, half + 1, Len(metrics))
             s1 == SumRT(first_half)
             s2 == SumRT(second_half)
             n1 == Len(first_half)
             n2 == Len(second_half)
         IN  IF 5 * s2 * n1 > 6 * s1 * n2
             THEN <<Insight("Response times are trending upward", NoEndpoint)>>
             ELSE IF 5 * s2 * n1 < 4 * s1 * n2
             THEN <<Insight("Response times are improving", NoEndpoint)>>
             ELSE <<>>

\* MonitoringAgent._generate_insights
generate_insights(metrics, t) ==
    IF metrics = <<>> THEN <<>>
    ELSE <<Insight("Best performing endpoint", BestEndpoint(metrics)),
           Insight("Slowest endpoint", WorstEndpoint(metrics))>>
         \o (IF HighActivity(metrics, t)
             THEN <<Insight("High activity detected in the last hour", NoEndpoint)>>
             ELSE <<>>)
         \o Trend(metrics)

\* health_score after the three deductions
HealthScore(slow, high, many) ==
    100 - (IF slow THEN SLOW_DEDUCTION ELSE 0)
        - (IF high THEN ERROR_DEDUCTION ELSE 0)
        - (IF many THEN ALERTS_DEDUCTION ELSE 0)

\* variant: healthy only above 80, degraded only above 60
HealthStatus_Strict(health_score) ==
    IF health_score > HEALTHY_MIN THEN "healthy"
    ELSE IF health_score > DEGRADED_MIN THEN "degraded"
    ELSE "critical"

\* the status label of get_health_summary
HealthStatus(health_score) ==
    IF health_score >= HEALTHY_MIN THEN "healthy"
    ELSE IF health_score >= DEGRADED_MIN THEN "degraded"
    ELSE "critical"

\* the test of the active_alerts comprehension in get_health_summary
IsActiveAlert(a, t) == TimedeltaSeconds(t - a.timestamp) < ACTIVE_SECONDS

\* variant: only the alerts counted as active are counted
TooManyAlerts_ActiveOnly(al, t) ==
    Len(SelectSeq(al, LAMBDA a : IsActiveAlert(a, t))) > MANY_ALERTS

\* the test len(self.alerts) > 5 of get_health_summary (the clock plays no
\* part in it)
TooManyAlerts(al, t) == Len(al) > MANY_ALERTS

\* the summary of get_health_summary on a non-empty history
HealthOf(h, al, bl, t) ==
    LET recent_metrics == Tail_k(h, HEALTH_WINDOW)
        total_requests == Len(recent_metrics)
        error_requests == Len(SelectSeq(recent_metrics, IsErrorStatus))
        avg_response_time == Mean(recent_metrics)
        slow == avg_response_time[1] > response_time_threshold * avg_response_time[2]
        high == total_requests > 0
                /\ RateExceeds(error_requests, total_requests, error_rate_threshold_pct)
        many == TooManyAlerts(al, t)
        health_score == HealthScore(slow, high, many)
    IN  [status |-> HealthStatus(health_score),
         health_score |-> IF health_score > 0 THEN health_score ELSE 0,
         total_requests |-> total_requests,
         error_rate |-> <<error_requests, total_requests>>,
         avg_response_time |-> avg_response_time,
         active_alerts |-> Len(SelectSeq(al, LAMBDA a : IsActiveAlert(a, t))),
         issues |-> (IF slow THEN <<"Slow response times">> ELSE <<>>)
                    \o (IF high THEN <<"High error rate">> ELSE <<>>)
                    \o (IF many THEN <<"Multiple active alerts">> ELSE <<>>),
         insights |-> generate_insights(recent_metrics, t),
         baseline_metrics |-> bl]

NoData == [status |-> "no_data", message |-> "No metrics available for analysis"]

\* variant: the sentinel is returned until the first analysis pass can run
get_health_summary_NoDataBelowMinimum(h, al, bl, t) ==
    IF Len(h) < MIN_ANALYSIS THEN NoData ELSE HealthOf(h, al, bl, t)

\* MonitoringAgent.get_health_summary
get_health_summary(h, al, bl, t) ==
    IF h = <<>> THEN NoData ELSE HealthOf(h, al, bl, t)

\* variant: the age is taken as in _add_alert, by its seconds field
get_recent_alerts_BySecondsField(al, hours, t) ==
    SelectSeq(al, LAMBDA alert : TimedeltaSeconds(t - alert.timestamp) < hours * SECONDS_PER_HOUR)

\* MonitoringAgent.get_recent_alerts(hours)
get_recent_alerts(al, hours, t) ==
    LET cutoff_time == t - hours * SECONDS_PER_HOUR
    IN  SelectSeq(al, LAMBDA alert : alert.timestamp > cutoff_time)

\* dataclasses.asdict: the dict of the fields of the alert
AsDict(alert) == [f \in DOMAIN alert |-> alert[f]]

\* APIMonitor.get_status_report
get_status_report(active, h, al, bl, t) ==
    LET recent_alerts == get_recent_alerts(al, STATUS_REPORT_HOURS, t)
    IN  [monitoring_active |-> active,
         endpoints_monitored |-> endpoints,
         check_interval |-> check_interval,
         health_summary |-> get_health_summary(h, al, bl, t),
         recent_alerts |-> [i \in 1..Len(recent_alerts) |-> AsDict(recent_alerts[i])],
         total_metrics_collected |-> Len(h),
         baseline_metrics |-> bl]

(***************************************************************************)
(* Bounds of the exploration                                               *)
(***************************************************************************)
MaxAdds == 21       \* add_metric calls explored by Spec
MaxRuns == 2        \* runs of equal consecutive samples in the input of Spec
HistAdds == 1500    \* add_metric calls explored by SpecHist
AlertSteps == 4     \* operations explored by SpecAlerts after its prefix
NumProbes == 2      \* endpoints probed per cycle (a prefix of self.endpoints)
MaxCycles == 2      \* probe cycles explored by SpecLoop
PrefixCycles == 5   \* probe cycles completed before the cycle of SpecDash
MaxFeed == 15       \* add_metric calls explored by SpecReport
MaxWindowAdds == 52 \* add_metric calls explored by SpecWindow
MaxAnomalyLen == 50 \* longest window handed to _detect_anomalies by SpecAnomaly
MaxOutliers == 2    \* deviating samples in a window of SpecAnomaly

\* the samples the environment feeds: (endpoint, response_time, status_code,
\* error_count); 0.5 s and 0.3 s are fast, 2.5 s is over the 2.0 s threshold
SampleKinds ==
    << [endpoint |-> "/wines",   response_time |-> 5,  status_code |-> 200, error_count |-> 0],
       [endpoint |-> "/wines",   response_time |-> 25, status_code |-> 200, error_count |-> 0],
       [endpoint |-> "/health",  response_time |-> 25, status_code |-> 200, error_count |-> 0],
       [endpoint |-> "/regions", response_time |-> 3,  status_code |-> 500, error_count |-> 1] >>

\* clock advances: inside the de-duplication window, exactly the window, a day
ClockSteps == {100, 300, 86400}

\* ages of the alerts handed to _add_alert directly: stamped now, or 25 hours ago
AlertAges == {0, 90000}

\* (title, endpoint) of the alerts handed to _add_alert directly
DirectAlerts ==
    { <<SLOW_TITLE, "/wines">>, <<SLOW_TITLE, NoEndpoint>>, <<ERROR_TITLE, NoEndpoint>> }

Sample(k, t) ==
    MetricData(t, SampleKinds[k].endpoint, SampleKinds[k].response_time,
               SampleKinds[k].status_code, SampleKinds[k].error_count)

(***************************************************************************)
(* State after construction (MonitoringAgent.__init__, APIMonitor.__init__)*)
(***************************************************************************)
EnvInit == [kind |-> 0, runs |-> 0, steps |-> 0, backdated |-> 0, cycles |-> 0,
            cycle_start |-> 0, stopped |-> FALSE]

Init ==
    /\ metrics_history = <<>>
    /\ alerts = <<>>
    /\ baseline_metrics = <<>>
    /\ now = 0
    /\ monitoring_active = FALSE
    /\ session = "none"
    /\ pc = "init"
    /\ probes = <<>>
    /\ added = <<>>
    /\ last_op = [op |-> "init"]
    /\ env = EnvInit

(***************************************************************************)
(* Agent operations as steps                                               *)
(***************************************************************************)
\* a call add_metric(metric) at the current clock
AddMetricStep(metric) ==
    LET r == add_metric(metrics_history, alerts, baseline_metrics, metric, now)
    IN  /\ metrics_history' = r.metrics_history
        /\ alerts' = r.alerts
        /\ baseline_metrics' = r.baseline_metrics
        /\ added' = Append(added, metric)
        /\ last_op' = [op |-> "add_metric", before |-> alerts]

\* a call _add_alert(alert) at the current clock
AddAlertStep(alert) ==
    /\ alerts' = add_alert(alerts, alert, now)
    /\ last_op' = [op |-> "add_alert", before |-> alerts, alert |-> alert]
    /\ UNCHANGED <<metrics_history, baseline_metrics, added>>

\* a call clear_old_alerts(days) at the current clock
ClearStep(days) ==
    /\ alerts' = clear_old_alerts(alerts, days, now)
    /\ last_op' = [op |-> "clear_old_alerts", before |-> alerts, days |-> days]
    /\ UNCHANGED <<metrics_history, baseline_metrics, added>>

\* the clock advances by d seconds
TickStep(d) ==
    /\ now' = now + d
    /\ last_op' = [op |-> "tick", before |-> alerts, d |-> d]
    /\ UNCHANGED <<agentVars, added>>

\* the environment's next sample is of kind k: a new run if k differs from
\* the kind of the previous sample
RunEnv(k, maxRuns) ==
    /\ k = env.kind \/ env.runs < maxRuns
    /\ env' = [env EXCEPT !.kind = k,
                          !.runs = IF k = env.kind THEN @ ELSE @ + 1]

(***************************************************************************)
(* Spec: an empty agent fed by add_metric only                             *)
(***************************************************************************)
AddMetric ==
    \E k \in 1..Len(SampleKinds) :
        /\ Len(added) < MaxAdds
        /\ RunEnv(k, MaxRuns)
        /\ AddMetricStep(Sample(k, now))
        /\ UNCHANGED <<now, monitorVars>>

Next == AddMetric

Spec == Init /\ [][Next]_vars

(***************************************************************************)
(* SpecHist: a long sequential input, five samples (one per endpoint) per  *)
(* check interval, as the collector produces them                          *)
(***************************************************************************)
HistSample(i, t) ==
    MetricData(t, endpoints[(i % Len(endpoints)) + 1], (i % 7) + 1, 200, 0)

HistAdd ==
    /\ Len(added) < HistAdds
    /\ last_op.op = "tick" \/ Len(added) % Len(endpoints) # 0 \/ added = <<>>
    /\ AddMetricStep(HistSample(Len(added), now))
    /\ UNCHANGED <<now, monitorVars, env>>

HistTick ==
    /\ added # <<>>
    /\ Len(added) % Len(endpoints) = 0
    /\ last_op.op # "tick"
    /\ TickStep(check_interval)
    /\ UNCHANGED <<monitorVars, env>>

NextHist == HistAdd \/ HistTick

SpecHist == Init /\ [][NextHist]_vars

(***************************************************************************)
(* SpecAlerts: the alert log under add_metric, direct _add_alert calls,    *)
(* clear_old_alerts and clock advances.  It starts from the agent after    *)
(* nine equal samples at clock 0, one short of the first analysis pass:    *)
(* no alert and no baseline exist yet.                                     *)
(***************************************************************************)
PrefixKinds == {2, 4}

RECURSIVE Repeat(_, _)
Repeat(x, n) == IF n = 0 THEN <<>> ELSE Append(Repeat(x, n - 1), x)

InitAlerts ==
    \E k \in PrefixKinds :
        /\ metrics_history = Repeat(Sample(k, 0), MIN_ANALYSIS - 1)
        /\ alerts = <<>>
        /\ baseline_metrics = <<>>
        /\ now = 0
        /\ monitoring_active = FALSE
        /\ session = "none"
        /\ pc = "init"
        /\ probes = <<>>
        /\ added = metrics_history
        /\ last_op = [op |-> "add_metric", before |-> <<>>]
        /\ env = [EnvInit EXCEPT !.kind = k, !.runs = 1]

StepEnv == /\ env.steps < AlertSteps
           /\ env' = [env EXCEPT !.steps = @ + 1]

\* the next sample of the run the prefix began
AlertsAddMetric ==
    /\ env.steps < AlertSteps
    /\ env' = [env EXCEPT !.steps = @ + 1]
    /\ AddMetricStep(Sample(env.kind, now))
    /\ UNCHANGED <<now, monitorVars>>

\* an alert as a caller of _add_alert builds it, with an arbitrary age
DirectAlert(title, endpoint, ts) ==
    [id |-> <<"direct", endpoint, ts>>,
     timestamp |-> ts,
     level |-> "warning",
     title |-> title,
     endpoint |-> endpoint,
     metrics |-> <<>>]

AlertsAddAlert ==
    \E p \in DirectAlerts, age \in AlertAges :
        /\ env.steps < AlertSteps
        /\ env' = [env EXCEPT !.steps = @ + 1,
                              !.backdated = IF age = 0 THEN @ ELSE @ + 1]
        /\ AddAlertStep(DirectAlert(p[1], p[2], now - age))
        /\ UNCHANGED <<now, monitorVars>>

AlertsClear ==
    /\ StepEnv
    /\ ClearStep(1)
    /\ UNCHANGED <<now, monitorVars>>

AlertsTick ==
    \E d \in ClockSteps :
        /\ StepEnv
        /\ TickStep(d)
        /\ UNCHANGED monitorVars

NextAlerts == AlertsAddMetric \/ AlertsAddAlert \/ AlertsClear \/ AlertsTick

SpecAlerts == InitAlerts /\ [][NextAlerts]_vars

(***************************************************************************)
(* APIMonitor: the collector.  A probe (_check_endpoint task) is created,  *)
(* runs to its await of session.get (in flight), and on completion builds  *)
(* its sample and calls add_metric in one uninterrupted step.              *)
(***************************************************************************)
Monitored == SubSeq(endpoints, 1, NumProbes)

Failure == [kind |-> "failure", status |-> 0]

\* what the monitored service does with a request: an HTTP response with a
\* status, no answer within the timeout, or a transport failure
Outcomes ==
    { [kind |-> "response", status |-> 200],
      [kind |-> "response", status |-> 400],
      [kind |-> "timeout", status |-> 0],
      Failure }

LoopOutcomes == { [kind |-> "response", status |-> 200] }

\* variant: the timeout handler records the sample as a connection error
check_endpoint_TimeoutAsFailure(outcome, endpoint, t) ==
    IF outcome.kind = "response"
    THEN MetricData(t, endpoint, 1, outcome.status,
                    IF outcome.status >= 400 THEN 1 ELSE 0)
    ELSE MetricData(t, endpoint, 0, 0, 1)

\* APIMonitor._check_endpoint: the sample built for an outcome (the try body,
\* the asyncio.TimeoutError handler, the Exception handler).  response_time
\* is the elapsed time: 0.1 s for an answered request, the session timeout
\* for one that timed out, none for a request that failed.
check_endpoint(outcome, endpoint, t) ==
    IF outcome.kind = "response"
    THEN MetricData(t, endpoint, 1, outcome.status,
                    IF outcome.status >= 400 THEN 1 ELSE 0)
    ELSE IF outcome.kind = "timeout"
    THEN MetricData(t, endpoint, request_timeout, 408, 1)
    ELSE MetricData(t, endpoint, 0, 0, 1)

\* variant: the timeout handler only logs, no sample is recorded
handler_metrics_TimeoutDropped(outcome, endpoint, t) ==
    IF outcome.kind = "timeout" THEN <<>>
    ELSE <<check_endpoint(outcome, endpoint, t)>>

\* the add_metric calls one _check_endpoint run makes: each of its three
\* branches calls add_metric once
handler_metrics(outcome, endpoint, t) == <<check_endpoint(outcome, endpoint, t)>>

\* add_metric applied to each sample of ms in turn
RECURSIVE add_metrics(_, _, _, _, _)
add_metrics(h, al, bl, ms, t) ==
    IF ms = <<>>
    THEN [metrics_history |-> h, alerts |-> al, baseline_metrics |-> bl]
    ELSE LET r == add_metric(h, al, bl, Head(ms), t)
         IN  add_metrics(r.metrics_history, r.alerts, r.baseline_metrics, Tail(ms), t)

AddMetricsStep(ms) ==
    LET r == add_metrics(metrics_history, alerts, baseline_metrics, ms, now)
    IN  /\ metrics_history' = r.metrics_history
        /\ alerts' = r.alerts
        /\ baseline_metrics' = r.baseline_metrics
        /\ added' = added \o ms
        /\ last_op' = [op |-> "add_metric", before |-> alerts]

NewProbes ==
    [i \in 1..Len(Monitored) |->
        [state |-> "created", issued |-> FALSE, natural |-> Failure,
         observed |-> Failure, samples |-> <<>>, result |-> "none"]]

\* _monitor_endpoints up to its await of gather: one task per endpoint
CreateTasks ==
    /\ probes' = NewProbes
    /\ pc' = "gather"

\* task i runs to its first await.  On an open session the request is now in
\* flight (the service's answer is fixed here); on a closed or missing
\* session session.get raises and the Exception handler records the sample.
ProbeIssueStep(i, outs) ==
    /\ pc = "gather"
    /\ i \in DOMAIN probes
    /\ probes[i].state = "created"
    /\ \A j \in 1..(i - 1) : probes[j].state # "created"
    /\ IF session = "open"
       THEN /\ \E o \in outs :
                 probes' = [probes EXCEPT ![i].state = "inflight",
                                          ![i].issued = TRUE,
                                          ![i].natural = o]
            /\ UNCHANGED <<agentVars, added, last_op>>
       ELSE LET ms == handler_metrics(Failure, Monitored[i], now)
            IN  /\ AddMetricsStep(ms)
                /\ probes' = [probes EXCEPT ![i].state = "done",
                                            ![i].observed = Failure,
                                            ![i].samples = ms]
    /\ UNCHANGED <<now, monitoring_active, session, pc, env>>

\* the request of task i completes and the task runs to its end.  If the
\* session was closed meanwhile the connection is gone: the request fails,
\* unless its answer had already arrived.
ProbeCompleteStep(i) ==
    /\ pc = "gather"
    /\ i \in DOMAIN probes
    /\ probes[i].state = "inflight"
    /\ \E o \in (IF session = "open" THEN {probes[i].natural}
                 ELSE {probes[i].natural, Failure}) :
          LET ms == handler_metrics(o, Monitored[i], now)
          IN  /\ AddMetricsStep(ms)
              /\ probes' = [probes EXCEPT ![i].state = "done",
                                          ![i].observed = o,
                                          ![i].samples = ms]
    /\ UNCHANGED <<now, monitoring_active, session, pc, env>>

\* the error samples of the results loop of _monitor_endpoints: one per
\* result that is an exception
RECURSIVE error_metrics(_, _, _)
error_metrics(pr, i, t) ==
    IF i > Len(pr) THEN <<>>
    ELSE (IF pr[i].result = "exception"
          THEN <<MetricData(t, Monitored[i], 0, 0, 1)>> ELSE <<>>)
         \o error_metrics(pr, i + 1, t)

\* variant: gather returns as soon as one task is done
GatherReturn_Early ==
    /\ pc = "gather"
    /\ \E i \in DOMAIN probes : probes[i].state = "done"
    /\ AddMetricsStep(error_metrics(probes, 1, now))
    /\ pc' = "sleep"
    /\ UNCHANGED <<now, monitoring_active, session, probes, env>>

\* gather returns once every task is done; the results loop runs and
\* _monitor_endpoints returns into the await of asyncio.sleep
GatherReturn ==
    /\ pc = "gather"
    /\ \A i \in DOMAIN probes : probes[i].state = "done"
    /\ AddMetricsStep(error_metrics(probes, 1, now))
    /\ pc' = "sleep"
    /\ UNCHANGED <<now, monitoring_active, session, probes, env>>

\* start_monitoring up to its loop
StartMonitoring ==
    /\ pc = "init"
    /\ monitoring_active' = TRUE
    /\ session' = "open"
    /\ pc' = "loop"
    /\ UNCHANGED <<agentVars, now, probes, added, last_op, env>>

\* variant: while True
LoopCondition_IgnoreFlag == TRUE

\* the condition of the while loop of start_monitoring
LoopCondition == monitoring_active

\* the loop condition holds: the next cycle begins
LoopEnter ==
    /\ pc = "loop"
    /\ LoopCondition
    /\ env.cycles < MaxCycles
    /\ CreateTasks
    /\ env' = [env EXCEPT !.cycles = @ + 1, !.cycle_start = Len(added)]
    /\ UNCHANGED <<agentVars, now, monitoring_active, session, added, last_op>>

\* the loop condition fails: on to the finally clause
LoopExit ==
    /\ pc = "loop"
    /\ ~LoopCondition
    /\ pc' = "finally"
    /\ UNCHANGED <<agentVars, now, monitoring_active, session, probes, added, last_op, env>>

\* asyncio.sleep(check_interval) returns
Wake ==
    /\ pc = "sleep"
    /\ pc' = "loop"
    /\ now' = now + check_interval
    /\ UNCHANGED <<agentVars, monitoring_active, session, probes, added, last_op, env>>

\* the session after stop_monitoring: closed if there is one
stop_session(sess) == IF sess = "none" THEN "none" ELSE "closed"

\* APIMonitor.stop_monitoring
stop_monitoring ==
    /\ monitoring_active' = FALSE
    /\ session' = stop_session(session)

\* the finally clause of start_monitoring
Finally ==
    /\ pc = "finally"
    /\ stop_monitoring
    /\ pc' = "done"
    /\ UNCHANGED <<agentVars, now, probes, added, last_op, env>>

\* another task calls stop_monitoring while start_monitoring runs
StopMonitoring ==
    /\ pc \in {"loop", "gather", "sleep"}
    /\ ~env.stopped
    /\ stop_monitoring
    /\ env' = [env EXCEPT !.stopped = TRUE]
    /\ UNCHANGED <<agentVars, now, pc, probes, added, last_op>>

(***************************************************************************)
(* SpecCycle: one probe cycle of a started monitor, every outcome of every *)
(* probe, every completion order, stop_monitoring at any point.  It starts *)
(* from start_monitoring in its first iteration, the tasks just created.   *)
(***************************************************************************)
InitCycle ==
    /\ metrics_history = <<>>
    /\ alerts = <<>>
    /\ baseline_metrics = <<>>
    /\ now = 0
    /\ monitoring_active = TRUE
    /\ session = "open"
    /\ pc = "gather"
    /\ probes = NewProbes
    /\ added = <<>>
    /\ last_op = [op |-> "init"]
    /\ env = [EnvInit EXCEPT !.cycles = 1]

ProbeIssue == \E i \in 1..Len(Monitored) : ProbeIssueStep(i, Outcomes)

ProbeComplete == \E i \in 1..Len(Monitored) : ProbeCompleteStep(i)

NextCycle == ProbeIssue \/ ProbeComplete \/ GatherReturn \/ StopMonitoring

SpecCycle == InitCycle /\ [][NextCycle]_vars

(***************************************************************************)
(* SpecLoop: the run loop of start_monitoring over several cycles, the     *)
(* service answering 200, stop_monitoring called by another task at any    *)
(* point.  Every probe and every sleep eventually completes.               *)
(***************************************************************************)
LoopProbeIssue == \E i \in 1..Len(Monitored) : ProbeIssueStep(i, LoopOutcomes)

NextLoop ==
    \/ StartMonitoring
    \/ LoopEnter
    \/ LoopExit
    \/ LoopProbeIssue
    \/ ProbeComplete
    \/ GatherReturn
    \/ Wake
    \/ Finally
    \/ StopMonitoring

LoopFairness ==
    /\ WF_vars(StartMonitoring)
    /\ WF_vars(LoopEnter)
    /\ WF_vars(LoopExit)
    /\ WF_vars(LoopProbeIssue)
    /\ WF_vars(ProbeComplete)
    /\ WF_vars(GatherReturn)
    /\ WF_vars(Wake)
    /\ WF_vars(Finally)

SpecLoop == Init /\ [][NextLoop]_vars /\ LoopFairness

(***************************************************************************)
(* SpecDash: a probe cycle of a monitor that has completed several cycles  *)
(* (so that every append is followed by an analysis pass), interleaved     *)
(* with get_status_report calls of the dashboard's websocket task.         *)
(***************************************************************************)
\* the agent after add_metric of each sample of ms at the sample's time
RECURSIVE replay(_)
replay(ms) ==
    IF ms = <<>>
    THEN [metrics_history |-> <<>>, alerts |-> <<>>, baseline_metrics |-> <<>>]
    ELSE LET st == replay(SubSeq(ms, 1, Len(ms) - 1))
             m == ms[Len(ms)]
         IN  add_metric(st.metrics_history, st.alerts, st.baseline_metrics, m, m.timestamp)

\* what the service answered during the completed cycles
PrefixOutcomes ==
    { [kind |-> "response", status |-> 200],
      [kind |-> "response", status |-> 400] }

\* the samples of the completed cycles, one per endpoint and cycle
CycleHistory(o) ==
    [j \in 1..(PrefixCycles * Len(Monitored)) |->
        check_endpoint(o, Monitored[((j - 1) % Len(Monitored)) + 1],
                       ((j - 1) \div Len(Monitored)) * check_interval)]

InitDash ==
    \E o \in PrefixOutcomes :
        LET st == replay(CycleHistory(o))
        IN  /\ metrics_history = st.metrics_history
            /\ alerts = st.alerts
            /\ baseline_metrics = st.baseline_metrics
            /\ now = PrefixCycles * check_interval
            /\ monitoring_active = TRUE
            /\ session = "open"
            /\ pc = "gather"
            /\ probes = NewProbes
            /\ added = CycleHistory(o)
            /\ last_op = [op |-> "tick", before |-> st.alerts, d |-> check_interval]
            /\ env = [EnvInit EXCEPT !.cycles = PrefixCycles + 1,
                                     !.cycle_start = PrefixCycles * Len(Monitored)]

\* the websocket task of the dashboard calls get_status_report
DashRead ==
    /\ last_op' = [op |-> "get_status_report", before |-> alerts,
                   result |-> get_status_report(monitoring_active, metrics_history,
                                                alerts, baseline_metrics, now)]
    /\ UNCHANGED <<agentVars, now, monitorVars, added, env>>

NextDash == ProbeIssue \/ ProbeComplete \/ GatherReturn \/ DashRead

SpecDash == InitDash /\ [][NextDash]_vars

(***************************************************************************)
(* SpecReport: the agent fed a few samples of one kind and then samples of *)
(* another kind, back to back or 300 seconds apart, and read at any point  *)
(* by get_health_summary, get_recent_alerts and get_status_report; the     *)
(* alerts may be pruned, and the feed may stop for a day before the reads. *)
(***************************************************************************)
\* the kinds of SampleKinds, and the sample of a probe that failed
NumReportKinds == Len(SampleKinds) + 1

ReportSample(k, t) ==
    IF k <= Len(SampleKinds) THEN Sample(k, t)
    ELSE check_endpoint(Failure, endpoints[1], t)

ReportLeadLens == {3, 9}

ReportGaps == {0, 300}

\* the feed stops for 24 h 30 min or for 25 h
JumpSteps == {88200, 90000}

RecentHours == {1, 24, 48}

InitReport ==
    \E a \in 1..NumReportKinds, b \in 1..NumReportKinds,
       na \in ReportLeadLens, gap \in ReportGaps :
        /\ metrics_history = <<>>
        /\ alerts = <<>>
        /\ baseline_metrics = <<>>
        /\ now = 0
        /\ monitoring_active = FALSE
        /\ session = "none"
        /\ pc = "init"
        /\ probes = <<>>
        /\ added = <<>>
        /\ last_op = [op |-> "init"]
        /\ env = [lead |-> a, lead_len |-> na, kind |-> b, gap |-> gap,
                  due |-> FALSE, jumped |-> FALSE]

ReportAdd ==
    /\ Len(added) < MaxFeed
    /\ ~env.due
    /\ ~env.jumped
    /\ AddMetricStep(ReportSample(IF Len(added) < env.lead_len THEN env.lead ELSE env.kind, now))
    /\ env' = [env EXCEPT !.due = (env.gap > 0)]
    /\ UNCHANGED <<now, monitorVars>>

\* the time between two samples passes
ReportTick ==
    /\ env.due
    /\ ~env.jumped
    /\ TickStep(env.gap)
    /\ env' = [env EXCEPT !.due = FALSE]
    /\ UNCHANGED monitorVars

\* a long time passes without samples
ReportJump ==
    \E d \in JumpSteps :
        /\ ~env.jumped
        /\ TickStep(d)
        /\ env' = [env EXCEPT !.jumped = TRUE]
        /\ UNCHANGED monitorVars

\* variant: get_health_summary drops the alerts older than a day
ReportHealth_Pruning ==
    /\ last_op' = [op |-> "get_health_summary", before |-> alerts,
                   result |-> get_health_summary(metrics_history, alerts,
                                                 baseline_metrics, now)]
    /\ alerts' = clear_old_alerts(alerts, 1, now)
    /\ UNCHANGED <<metrics_history, baseline_metrics, now, monitorVars, added, env>>

\* a call get_health_summary()
ReportHealth ==
    /\ last_op' = [op |-> "get_health_summary", before |-> alerts,
                   result |-> get_health_summary(metrics_history, alerts,
                                                 baseline_metrics, now)]
    /\ UNCHANGED <<agentVars, now, monitorVars, added, env>>

\* a call get_recent_alerts(hours)
ReportRecent ==
    \E hours \in RecentHours :
        /\ last_op' = [op |-> "get_recent_alerts", before |-> alerts, hours |-> hours,
                       result |-> get_recent_alerts(alerts, hours, now)]
        /\ UNCHANGED <<agentVars, now, monitorVars, added, env>>

\* a call get_status_report()
ReportStatus ==
    /\ last_op' = [op |-> "get_status_report", before |-> alerts,
                   result |-> get_status_report(monitoring_active, metrics_history,
                                                alerts, baseline_metrics, now)]
    /\ UNCHANGED <<agentVars, now, monitorVars, added, env>>

\* a call clear_old_alerts(1)
ReportClear ==
    /\ ClearStep(1)
    /\ UNCHANGED <<now, monitorVars, env>>

NextReport ==
    \/ ReportAdd
    \/ ReportTick
    \/ ReportJump
    \/ ReportHealth
    \/ ReportRecent
    \/ ReportStatus
    \/ ReportClear

SpecReport == InitReport /\ [][NextReport]_vars

(***************************************************************************)
(* SpecWindow: an empty agent fed past the length of the analysis window:  *)
(* a few samples of one kind, then samples of another kind, five samples   *)
(* per check interval.                                                     *)
(***************************************************************************)
LeadLens == {1, 3, 20}

InitWindow ==
    \E a \in 1..Len(SampleKinds), b \in 1..Len(SampleKinds), na \in LeadLens :
        /\ metrics_history = <<>>
        /\ alerts = <<>>
        /\ baseline_metrics = <<>>
        /\ now = 0
        /\ monitoring_active = FALSE
        /\ session = "none"
        /\ pc = "init"
        /\ probes = <<>>
        /\ added = <<>>
        /\ last_op = [op |-> "init"]
        /\ env = [lead |-> a, lead_len |-> na, kind |-> b]

WindowAdd ==
    /\ Len(added) < MaxWindowAdds
    /\ last_op.op = "tick" \/ Len(added) % Len(endpoints) # 0 \/ added = <<>>
    /\ AddMetricStep(Sample(IF Len(added) < env.lead_len THEN env.lead ELSE env.kind, now))
    /\ UNCHANGED <<now, monitorVars, env>>

WindowTick ==
    /\ added # <<>>
    /\ Len(added) % Len(endpoints) = 0
    /\ last_op.op # "tick"
    /\ TickStep(check_interval)
    /\ UNCHANGED <<monitorVars, env>>

NextWindow == WindowAdd \/ WindowTick

SpecWindow == InitWindow /\ [][NextWindow]_vars

(***************************************************************************)
(* SpecAnomaly: _detect_anomalies called on a fresh agent whose            *)
(* anomaly_sensitivity attribute was set to any value, with any window of  *)
(* equal samples followed by a few deviating ones.                         *)
(***************************************************************************)
Sensitivities == {-1, 0, 1, 2}

AnomalyLens == {MIN_ANOMALY - 1, MIN_ANOMALY, MIN_ANOMALY + 1, MaxAnomalyLen}

AnomalyTimes == {1, 5, 30}

InitAnomaly ==
    \E n \in AnomalyLens, k \in 0..MaxOutliers, a \in AnomalyTimes, b \in AnomalyTimes,
       sens \in Sensitivities :
        /\ a # b
        /\ metrics_history = <<>>
        /\ alerts = <<>>
        /\ baseline_metrics = <<>>
        /\ now = 0
        /\ monitoring_active = FALSE
        /\ session = "none"
        /\ pc = "init"
        /\ probes = <<>>
        /\ added = <<>>
        /\ last_op = [op |-> "init"]
        /\ env = [sensitivity |-> sens,
                  window |-> Repeat(MetricData(0, "/wines", a, 200, 0), n - k)
                             \o Repeat(MetricData(0, "/wines", b, 200, 0), k)]

\* a call _detect_anomalies(window)
DetectAnomalies ==
    /\ last_op.op = "init"
    /\ alerts' = detect_anomalies_with(alerts, env.window, now, env.sensitivity)
    /\ last_op' = [op |-> "detect_anomalies", before |-> alerts]
    /\ UNCHANGED <<metrics_history, baseline_metrics, now, monitorVars, added, env>>

NextAnomaly == DetectAnomalies

SpecAnomaly == InitAnomaly /\ [][NextAnomaly]_vars

(***************************************************************************)
(* Claims                                                                  *)
(***************************************************************************)

\* C1: after any sequence of add_metric calls the history holds at most
\* HISTORY_CAP (1000) samples and is exactly the last min(n, 1000) samples
\* ever added, in insertion order (the oldest are evicted first).
C1_HistoryIsLastThousand ==
    LET n == Len(added)
        k == Min2(n, HISTORY_CAP)
    IN  /\ Len(metrics_history) <= HISTORY_CAP
        /\ metrics_history = SubSeq(added, n - k + 1, n)

\* C1 witness: 1500 samples were added, 1000 remain, the first of them is
\* the 501st sample added, and it differs from the 500th (evicted) one.
C1_Witness ==
    /\ Len(added) = 1500
    /\ Len(metrics_history) = 1000
    /\ metrics_history[1] = added[501]
    /\ added[500] # added[501]

SameKeyClose(a, b) ==
    /\ a.title = b.title
    /\ a.endpoint = b.endpoint
    /\ a.timestamp - b.timestamp < DEDUP_SECONDS
    /\ b.timestamp - a.timestamp < DEDUP_SECONDS

NoCloseDuplicates(al) ==
    \A i, j \in 1..Len(al) : i < j => ~SameKeyClose(al[i], al[j])

\* C2 (as stated): in every reachable state of the alert log, under
\* add_metric, direct _add_alert calls (alerts of any age), clear_old_alerts
\* and clock advances, no two stored alerts have the same (title, endpoint)
\* and timestamps less than 300 seconds apart.
C2_NoCloseDuplicates == NoCloseDuplicates(alerts)

\* C2 (amended): the same, provided every alert handed to _add_alert is
\* stamped with the clock at the time of the call, as the alerts the
\* analysis pipeline creates are.
C2_NoCloseDuplicatesNowStamped ==
    env.backdated = 0 => NoCloseDuplicates(alerts)

\* C2 witness: with the clock advanced and only now-stamped alerts, a
\* direct _add_alert call was dropped as a duplicate of a stored alert.
C2_Witness ==
    /\ env.backdated = 0
    /\ now > 0
    /\ last_op.op = "add_alert"
    /\ alerts = last_op.before
    /\ Len(alerts) >= 2

\* an alert of al with the title and endpoint of alert and a true age
\* (clock minus timestamp) below 300 seconds
HasYoungDuplicate(al, alert, t) ==
    \E i \in 1..Len(al) :
        /\ al[i].title = alert.title
        /\ al[i].endpoint = alert.endpoint
        /\ t - al[i].timestamp < DEDUP_SECONDS

\* C3: _add_alert drops the alert (log unchanged) if and only if the log
\* holds an alert of the same title and endpoint whose age, clock minus
\* timestamp, is below 300 seconds; in every other case, however old the
\* matching alert is, the alert is appended at the end of the log.
C3_DropIffYoungDuplicate ==
    last_op.op = "add_alert" =>
        IF HasYoungDuplicate(last_op.before, last_op.alert, now)
        THEN alerts = last_op.before
        ELSE alerts = Append(last_op.before, last_op.alert)

\* the analysis window of the current history
Window == Tail_k(metrics_history, 50)

\* the alerts the last operation appended to the log
Appended ==
    IF Len(alerts) > Len(last_op.before) /\ SubSeq(alerts, 1, Len(last_op.before)) = last_op.before
    THEN SubSeq(alerts, Len(last_op.before) + 1, Len(alerts))
    ELSE <<>>

HasTitle(al, title) == \E i \in 1..Len(al) : al[i].title = title

\* some sample of w lies more than anomaly_sensitivity standard deviations
\* from the mean of w
HasOutlier(w) ==
    \E i \in 1..Len(w) :
        IsOutlier(w[i], Len(w), SumRT(w), SumSqDev(w, Len(w), SumRT(w)))

\* C8: from an empty agent fed by add_metric only, while fewer than 10
\* samples have been added the alert log and the baseline map are empty, and
\* no "Response Time Anomalies Detected" alert is stored by a pass whose
\* window holds fewer than 20 samples (the log only grows here, so: none is
\* in the log while the history holds fewer than 20 samples).
C8_NoAnalysisBelowMinimum ==
    /\ Len(added) < 10 => alerts = <<>> /\ baseline_metrics = <<>>
    /\ Len(metrics_history) < 20 => ~HasTitle(alerts, ANOMALY_TITLE)

\* C8 witness: 19 samples, one of them an outlier of the window; analysis
\* has run (a baseline exists) and no anomaly alert is stored.
C8_Witness ==
    /\ Len(metrics_history) = 19
    /\ HasOutlier(Window)
    /\ baseline_metrics # <<>>
    /\ ~HasTitle(alerts, ANOMALY_TITLE)

SlowCount(w, e) ==
    Cardinality({i \in 1..Len(w) : w[i].endpoint = e /\ w[i].response_time > 20})

HasYoungSlowAlert(al, e, t) ==
    \E i \in 1..Len(al) :
        /\ al[i].title = SLOW_TITLE
        /\ al[i].endpoint = e
        /\ al[i].level = "warning"
        /\ t - al[i].timestamp < 300

\* C9: after every analysis pass, each endpoint with at least 3 samples over
\* the latency threshold in the last-50 window has a warning alert "Slow
\* Response Times Detected" created less than 300 seconds ago in the log;
\* an endpoint with fewer than 3 gets no new alert; and a pass adds no
\* second alert for an endpoint that has one younger than 300 seconds.
C9_SlowAlertAfterEveryPass ==
    (last_op.op = "add_metric" /\ Len(metrics_history) >= 10) =>
        \A e \in EndpointsIn(Window) :
            /\ SlowCount(Window, e) >= 3 => HasYoungSlowAlert(alerts, e, now)
            /\ SlowCount(Window, e) < 3 =>
                   ~\E i \in 1..Len(Appended) :
                        Appended[i].title = SLOW_TITLE /\ Appended[i].endpoint = e
            /\ HasYoungSlowAlert(last_op.before, e, now) =>
                   ~\E i \in 1..Len(Appended) :
                        Appended[i].title = SLOW_TITLE /\ Appended[i].endpoint = e

ErrorCount(w) == Cardinality({i \in 1..Len(w) : w[i].status_code >= 400})

YoungErrorAlert(al, t) ==
    \E i \in 1..Len(al) :
        /\ al[i].title = ERROR_TITLE
        /\ al[i].endpoint = NoEndpoint
        /\ t - al[i].timestamp < 300

AppendedErrorAlerts ==
    SelectSeq(Appended, LAMBDA a : a.title = ERROR_TITLE /\ a.endpoint = NoEndpoint)

\* C10: in an analysis pass with no "High Error Rate Detected" alert stored
\* in the preceding 300 seconds, an alert with that title and no endpoint is
\* stored if and only if errors / window size > 0.05 (status_code >= 400),
\* and its level is critical if the rate is > 0.10 and warning otherwise.
C10_ErrorAlertIffRateOverThreshold ==
    (/\ last_op.op = "add_metric"
     /\ Len(metrics_history) >= 10
     /\ env.backdated = 0
     /\ ~YoungErrorAlert(last_op.before, now)) =>
        LET k == ErrorCount(Window)
            n == Len(Window)
        IN  /\ (AppendedErrorAlerts # <<>>) <=> (k * 100 > 5 * n)
            /\ \A i \in 1..Len(AppendedErrorAlerts) :
                   AppendedErrorAlerts[i].level =
                       IF k * 100 > 10 * n THEN "critical" ELSE "warning"

(***************************************************************************)
(* Claims about the collector                                              *)
(***************************************************************************)
\* the samples handed to add_metric since the current cycle began
CycleSamples == SubSeq(added, env.cycle_start + 1, Len(added))

SamplesFor(e) == {j \in 1..Len(CycleSamples) : CycleSamples[j].endpoint = e}

\* C4: whatever the outcomes of the probes of a cycle and the order in which
\* they complete, when _monitor_endpoints has returned no probe has left an
\* exception behind, every probe has made exactly one add_metric call, the
\* cycle has made as many add_metric calls as there are endpoints, exactly
\* one per endpoint, and these samples are the tail of the history.
C4_OneSamplePerEndpointPerCycle ==
    pc = "sleep" =>
        /\ \A i \in DOMAIN probes :
               /\ probes[i].state = "done"
               /\ probes[i].result = "none"
               /\ Len(probes[i].samples) = 1
        /\ Len(CycleSamples) = Len(Monitored)
        /\ \A i \in 1..Len(Monitored) : Cardinality(SamplesFor(Monitored[i])) = 1
        /\ Tail_k(metrics_history, Len(Monitored)) = CycleSamples

\* C4 witness: a cycle has returned in which one request timed out, another
\* got a response, and the probes completed out of creation order.
C4_Witness ==
    /\ pc = "sleep"
    /\ \E i \in DOMAIN probes : probes[i].observed.kind = "timeout"
    /\ \E i \in DOMAIN probes : probes[i].observed.kind = "response"
    /\ added[1].endpoint = Monitored[2]

\* C5: the sample of every completed probe has status_code equal to the
\* observed HTTP status when a response arrived, 408 when the request timed
\* out and 0 on any other failure; error_count 1 exactly when the probe
\* failed or the status is >= 400, else 0; request_count 1.
C5_SampleReflectsOutcome ==
    \A i \in DOMAIN probes :
        probes[i].state = "done" =>
            \A j \in 1..Len(probes[i].samples) :
                LET o == probes[i].observed
                    m == probes[i].samples[j]
                IN  /\ o.kind = "response" => m.status_code = o.status
                    /\ o.kind = "timeout" => m.status_code = 408
                    /\ o.kind = "failure" => m.status_code = 0
                    /\ m.error_count =
                           IF o.kind # "response" \/ o.status >= 400 THEN 1 ELSE 0
                    /\ m.request_count = 1
                    /\ m.endpoint = Monitored[i]
                    /\ \E k \in 1..Len(added) : added[k] = m

\* C5 witness: in one cycle a probe timed out and another got a 400.
C5_Witness ==
    /\ \E i \in DOMAIN probes :
           /\ probes[i].state = "done"
           /\ probes[i].observed.kind = "timeout"
           /\ Len(probes[i].samples) = 1
    /\ \E i \in DOMAIN probes :
           /\ probes[i].state = "done"
           /\ probes[i].observed = [kind |-> "response", status |-> 400]

\* C6: a probe whose request was issued records the sample of the outcome
\* its request was going to have, whether or not stop_monitoring was called
\* while it was in flight.
C6_StopLeavesProbesAlone ==
    \A i \in DOMAIN probes :
        (probes[i].state = "done" /\ probes[i].issued) =>
            /\ probes[i].observed = probes[i].natural
            /\ probes[i].samples = <<check_endpoint(probes[i].natural, Monitored[i],
                                                    probes[i].samples[1].timestamp)>>

\* C7: in the run loop a cycle is left only when every probe is done and
\* only into the sleep, the sleep is left only into the loop-condition check
\* and lasts check_interval, and a cycle starts only from a check made while
\* monitoring_active is true; once monitoring_active is false after the
\* start, the loop eventually exits; no cycle starts from a check made with
\* the flag false nor after the loop was left; on exit monitoring_active is
\* false and the session is closed.
C7_LoopAlternatesAndStops ==
    /\ [][/\ (pc = "gather" /\ pc' # "gather") =>
                (pc' = "sleep" /\ \A i \in DOMAIN probes : probes[i].state = "done")
          /\ (pc = "sleep" /\ pc' # "sleep") =>
                (pc' = "loop" /\ now' = now + check_interval)
          /\ (pc # "gather" /\ pc' = "gather") =>
                (pc = "loop" /\ monitoring_active)
          /\ pc \in {"finally", "done"} => pc' \in {"finally", "done"}]_vars
    /\ (pc # "init" /\ ~monitoring_active) ~> (pc = "done")
    /\ [](pc = "done" => (~monitoring_active /\ session = "closed"))

\* C7 witness: two full cycles ran, stop_monitoring was called by another
\* task, and the loop has exited.
C7_Witness ==
    /\ pc = "done"
    /\ env.stopped
    /\ env.cycles = 2
    /\ Len(added) = 2 * Len(Monitored)

(***************************************************************************)
(* Claims about the anomaly check at any sensitivity                       *)
(***************************************************************************)
AllEqualTimes(w) == \A i, j \in 1..Len(w) : w[i].response_time = w[j].response_time

\* C11: if all samples of the window handed to _detect_anomalies have the
\* same response_time, no "Response Time Anomalies Detected" alert is
\* stored (the log is left as it was), for every sensitivity, zero and
\* negative included, and every window size; no z-score is taken (the
\* standard deviation being 0, the division is not reached).
C11_NoAnomalyOnEqualTimes ==
    (last_op.op = "detect_anomalies" /\ AllEqualTimes(env.window)) =>
        /\ alerts = last_op.before
        /\ \A i \in 1..Len(alerts) : alerts[i].title # ANOMALY_TITLE
        /\ SumSqDev(env.window, Len(env.window), SumRT(env.window)) = 0

\* C11 witness: the check ran on the longest window, all samples equal, with a negative
\* sensitivity.
C11_Witness ==
    /\ last_op.op = "detect_anomalies"
    /\ AllEqualTimes(env.window)
    /\ Len(env.window) = MaxAnomalyLen
    /\ env.sensitivity < 0
    /\ alerts = <<>>

(***************************************************************************)
(* Claims about the baselines                                              *)
(***************************************************************************)
\* the positions of the samples of endpoint e in w
PositionsOf(w, e) == {i \in 1..Len(w) : w[i].endpoint = e}

\* the sum of the response times of the samples of endpoint e among the
\* first i samples of w
RECURSIVE SumTimesOf(_, _, _)
SumTimesOf(w, e, i) ==
    IF i = 0 THEN 0
    ELSE (IF w[i].endpoint = e THEN w[i].response_time ELSE 0) + SumTimesOf(w, e, i - 1)

\* equality of two rationals
RatEq(p, q) == p[1] * q[2] = q[1] * p[2]

\* v is the k-th smallest response time among the positions S of w
IsKth(w, S, v, k) ==
    /\ \E i \in S : w[i].response_time = v
    /\ Cardinality({i \in S : w[i].response_time < v}) < k
    /\ Cardinality({i \in S : w[i].response_time <= v}) >= k

\* med is the median of the response times at the positions S of w: the
\* middle value, or the mean of the two middle values
IsMedianAt(w, S, med) ==
    LET n == Cardinality(S)
    IN  IF n % 2 = 1
        THEN \E i \in S : /\ IsKth(w, S, w[i].response_time, (n + 1) \div 2)
                          /\ RatEq(med, <<w[i].response_time, 1>>)
        ELSE \E i, j \in S : /\ IsKth(w, S, w[i].response_time, n \div 2)
                             /\ IsKth(w, S, w[j].response_time, n \div 2 + 1)
                             /\ RatEq(med, <<w[i].response_time + w[j].response_time, 2>>)

\* C12: after every analysis pass, for each endpoint e of the last-50
\* window, baseline_metrics[e] holds the mean and the median of the response
\* times and the fraction with status_code < 400 of exactly e's samples in
\* that window, stamped with the current clock, whatever the entry was
\* before.
C12_BaselineIsWindowStatistics ==
    (last_op.op = "add_metric" /\ Len(metrics_history) >= 10) =>
        \A e \in EndpointsIn(Window) :
            LET S == PositionsOf(Window, e)
            IN  /\ e \in DOMAIN baseline_metrics
                /\ RatEq(baseline_metrics[e].avg_response_time,
                         <<SumTimesOf(Window, e, Len(Window)), Cardinality(S)>>)
                /\ IsMedianAt(Window, S, baseline_metrics[e].median_response_time)
                /\ RatEq(baseline_metrics[e].success_rate,
                         <<Cardinality({i \in S : Window[i].status_code < 400}),
                           Cardinality(S)>>)
                /\ baseline_metrics[e].last_updated = now

\* C12 witness: the window has slid: 52 samples were added, the endpoint of
\* the window has samples of two response times, and its entry was first
\* computed at an earlier clock value.
C12_Witness ==
    /\ last_op.op = "add_metric"
    /\ Len(metrics_history) > 50
    /\ now > 0
    /\ \E i, j \in 1..Len(metrics_history) :
           /\ metrics_history[i].endpoint = metrics_history[j].endpoint
           /\ metrics_history[i].response_time # metrics_history[j].response_time
           /\ i <= Len(metrics_history) - 50
           /\ j > Len(metrics_history) - 50

\* C13: after every analysis pass the keys of baseline_metrics are exactly
\* the endpoints occurring in the last-50 window.
C13_BaselineKeysAreWindowEndpoints ==
    (last_op.op = "add_metric" /\ Len(metrics_history) >= 10) =>
        DOMAIN baseline_metrics = EndpointsIn(Window)

(***************************************************************************)
(* Claims about the reports                                                *)
(***************************************************************************)
\* the health window of the current history
HealthWindow == Tail_k(metrics_history, 100)

\* the sum of the response times of the first i samples of w
RECURSIVE TotalTime(_, _)
TotalTime(w, i) == IF i = 0 THEN 0 ELSE w[i].response_time + TotalTime(w, i - 1)

MeanOverThreshold(w) == TotalTime(w, Len(w)) > 20 * Len(w)

ErrorRateOverThreshold(w) == ErrorCount(w) * 100 > 5 * Len(w)

IsHealthRead == last_op.op = "get_health_summary" /\ metrics_history # <<>>

Has(seq, x) == \E i \in 1..Len(seq) : seq[i] = x

\* C14: on a non-empty history get_health_summary reports, over the last
\* 100 samples, health_score = 100 - 20 [mean response time > 2.0 s]
\* - 30 [rate of status_code >= 400 > 0.05] - 15 [more than 5 stored
\* alerts], each deduction with its issue string and no other issue; the
\* score is one of 100, 85, 80, 70, 65, 55, 50, 35; the status is healthy
\* iff score >= 80, degraded iff 60 <= score < 80, critical otherwise.
C14_HealthScoreArithmetic ==
    IsHealthRead =>
        LET r == last_op.result
            slow == MeanOverThreshold(HealthWindow)
            high == ErrorRateOverThreshold(HealthWindow)
            many == Len(alerts) > 5
        IN  /\ r.health_score = 100 - (IF slow THEN 20 ELSE 0) - (IF high THEN 30 ELSE 0)
                                    - (IF many THEN 15 ELSE 0)
            /\ r.health_score \in {100, 85, 80, 70, 65, 55, 50, 35}
            /\ Has(r.issues, "Slow response times") <=> slow
            /\ Has(r.issues, "High error rate") <=> high
            /\ Has(r.issues, "Multiple active alerts") <=> many
            /\ Len(r.issues) = (IF slow THEN 1 ELSE 0) + (IF high THEN 1 ELSE 0)
                               + (IF many THEN 1 ELSE 0)
            /\ (r.status = "healthy") <=> (r.health_score >= 80)
            /\ (r.status = "degraded") <=> (r.health_score >= 60 /\ r.health_score < 80)
            /\ (r.status = "critical") <=> (r.health_score < 60)
            /\ r.total_requests = Len(HealthWindow)

\* C14 witness: a summary with all three deductions: score 35, critical.
C14_Witness ==
    /\ IsHealthRead
    /\ MeanOverThreshold(HealthWindow)
    /\ ErrorRateOverThreshold(HealthWindow)
    /\ Len(alerts) > 5
    /\ last_op.result.health_score = 35
    /\ last_op.result.status = "critical"

\* C15: get_health_summary returns the status "no_data" if and only if the
\* history is empty; the history, once non-empty, is never empty again, so
\* no summary after the first sample reports "no_data".
C15_NoDataIffEmptyHistory ==
    /\ [](last_op.op = "get_health_summary" =>
             ((last_op.result.status = "no_data") <=> (metrics_history = <<>>)))
    /\ [][metrics_history # <<>> => metrics_history' # <<>>]_vars
    /\ [](added # <<>> => metrics_history # <<>>)

\* C15 witness: a summary read before the first analysis pass, on a
\* history of fewer than 10 samples, reports a status other than "no_data".
C15_Witness ==
    /\ last_op.op = "get_health_summary"
    /\ Len(metrics_history) \in 1..9
    /\ last_op.result.status = "healthy"

\* C16: the active_alerts of get_health_summary is the number of stored
\* alerts less than one hour old (now - timestamp < 3600 s), whatever the
\* ages of the stored alerts.
C16_ActiveAlertsWithinHour ==
    IsHealthRead =>
        last_op.result.active_alerts =
            Cardinality({i \in 1..Len(alerts) : now - alerts[i].timestamp < 3600})

\* the positions of the alerts younger than the given number of hours
YoungPositions(al, hours, t) ==
    {i \in 1..Len(al) : al[i].timestamp > t - hours * 3600}

\* r consists of the elements of al at the positions P, in increasing order
IsSelection(r, al, P) ==
    /\ Len(r) = Cardinality(P)
    /\ \A k \in 1..Len(r) :
           \E i \in P : /\ Cardinality({j \in P : j <= i}) = k
                        /\ r[k] = al[i]

\* r is a subsequence of q
IsSubsequence(r, q) ==
    \E P \in SUBSET (1..Len(q)) : IsSelection(r, q, P)

\* C17: get_recent_alerts(hours) returns exactly the stored alerts with
\* timestamp later than now - hours, in insertion order; the result for a
\* smaller hours is a subsequence of the result for a larger one; an alert
\* more than 24 and less than 48 hours old is excluded for hours = 24 and
\* included for hours = 48.
C17_RecentAlertsByAge ==
    /\ last_op.op = "get_recent_alerts" =>
           IsSelection(last_op.result, alerts, YoungPositions(alerts, last_op.hours, now))
    /\ \A h1, h2 \in RecentHours :
           h1 <= h2 => IsSubsequence(get_recent_alerts(alerts, h1, now),
                                     get_recent_alerts(alerts, h2, now))
    /\ \A i \in 1..Len(alerts) :
           (now - alerts[i].timestamp >= 24 * 3600 /\ now - alerts[i].timestamp < 48 * 3600) =>
               /\ ~Has(get_recent_alerts(alerts, 24, now), alerts[i])
               /\ Has(get_recent_alerts(alerts, 48, now), alerts[i])

\* C17 witness: get_recent_alerts(24) returned nothing while alerts more
\* than 24 hours old are stored.
C17_Witness ==
    /\ last_op.op = "get_recent_alerts"
    /\ last_op.hours = 24
    /\ Len(alerts) >= 2
    /\ last_op.result = <<>>
    /\ get_recent_alerts(alerts, 48, now) = alerts
    /\ \A i \in 1..Len(alerts) : now - alerts[i].timestamp > 24 * 3600

\* C18: clear_old_alerts(days) leaves exactly the alerts with timestamp
\* later than now - days, in their previous order, and changes neither the
\* history nor the baselines; a second call at the same clock value changes
\* nothing more.
C18_ClearKeepsYoungAlerts ==
    [][last_op'.op = "clear_old_alerts" =>
          /\ IsSelection(alerts', alerts,
                         {i \in 1..Len(alerts) :
                              alerts[i].timestamp > now - last_op'.days * 86400})
          /\ metrics_history' = metrics_history
          /\ baseline_metrics' = baseline_metrics
          /\ now' = now
          /\ clear_old_alerts(alerts', last_op'.days, now') = alerts']_vars

\* C18 witness: a call removed some alerts and kept others.
C18_Witness ==
    /\ last_op.op = "clear_old_alerts"
    /\ alerts # <<>>
    /\ Len(alerts) < Len(last_op.before)

IsPrefix(p, q) == Len(p) <= Len(q) /\ SubSeq(q, 1, Len(p)) = p

\* C19: every step other than clear_old_alerts (add_metric, the reads, the
\* passing of time) leaves the previous alert list as a prefix of the new
\* one; a step that removes an alert is a clear_old_alerts call.
C19_AlertLogAppendOnly ==
    [][/\ last_op'.op # "clear_old_alerts" => IsPrefix(alerts, alerts')
       /\ ~IsPrefix(alerts, alerts') => last_op'.op = "clear_old_alerts"]_vars

\* C19 witness: an add_metric call appended an alert to a non-empty log.
C19_Witness ==
    /\ last_op.op = "add_metric"
    /\ last_op.before # <<>>
    /\ Len(alerts) > Len(last_op.before)
    /\ IsPrefix(last_op.before, alerts)

\* C20: when the history consists only of samples of failed probes
\* (status_code 0), at least 10 of them, the outage is visible: a "High
\* Error Rate Detected" alert is stored, or the health summary has the issue
\* "High error rate" or a status other than healthy, or the baseline
\* success_rate of a failing endpoint is below 1.
C20_OutageIsReported ==
    (/\ last_op.op = "get_health_summary"
     /\ Len(metrics_history) >= 10
     /\ \A i \in 1..Len(metrics_history) : metrics_history[i].status_code = 0) =>
        \/ HasTitle(alerts, ERROR_TITLE)
        \/ Has(last_op.result.issues, "High error rate")
        \/ last_op.result.status # "healthy"
        \/ \E e \in DOMAIN baseline_metrics :
               baseline_metrics[e].success_rate[1] < baseline_metrics[e].success_rate[2]

(***************************************************************************)
(* Claims about the status report and the end-to-end scenario              *)
(***************************************************************************)
\* C21: the total_metrics_collected of the status report taken in any state
\* is the number of samples added so far, also after more than 1000.
C21_TotalIsAllSamples ==
    get_status_report(monitoring_active, metrics_history, alerts,
                      baseline_metrics, now).total_metrics_collected = Len(added)

\* the run of the end-to-end scenario: 20 samples of 0.5 s then samples of
\* 2.5 s, all for "/wines" with status 200
IsScenarioRun ==
    /\ "lead" \in DOMAIN env
    /\ env.lead = 1 /\ env.lead_len = 20 /\ env.kind = 2
    /\ last_op.op = "add_metric"
    /\ Len(added) = 25

\* the stored slow-response alerts for "/wines"
WinesSlowAlerts ==
    SelectSeq(alerts, LAMBDA a : a.title = SLOW_TITLE /\ a.endpoint = "/wines")

BlendedBaseline ==
    /\ "/wines" \in DOMAIN baseline_metrics
    /\ RatEq(baseline_metrics["/wines"].avg_response_time, <<9, 1>>)

\* C22 (as stated): after the 20 + 5 samples of the scenario the log holds
\* a "Slow Response Times Detected" alert for "/wines" with slow count 5,
\* and the baseline avg_response_time of "/wines" is 0.9 s.
C22_ScenarioSlowCountFive ==
    IsScenarioRun =>
        /\ \E i \in 1..Len(WinesSlowAlerts) : WinesSlowAlerts[i].metrics.slow_count = 5
        /\ BlendedBaseline

\* C22 (amended): after the 20 + 5 samples of the scenario the log holds
\* exactly one "Slow Response Times Detected" alert for "/wines"; it was
\* stored by the pass of the 23rd sample and carries slow count 3 (the
\* alerts of the 24th and 25th pass, with counts 4 and 5, are dropped as
\* duplicates); the baseline avg_response_time of "/wines" is 0.9 s.
C22_ScenarioSlowCountThree ==
    IsScenarioRun =>
        /\ Len(WinesSlowAlerts) = 1
        /\ WinesSlowAlerts[1].metrics.slow_count = 3
        /\ WinesSlowAlerts[1].timestamp = added[23].timestamp
        /\ BlendedBaseline

\* C22 witness: the scenario has run to its 25th sample within 300 seconds.
C22_Witness ==
    /\ IsScenarioRun
    /\ now < 300
    /\ \A i \in 1..20 : added[i].response_time = 5
    /\ \A i \in 21..25 : added[i].response_time = 25
    /\ Len(WinesSlowAlerts) = 1

(***************************************************************************)
(* Claims about the interleaving of probes and reads                       *)
(***************************************************************************)
\* the agent in which every sample of ms was appended and then analysed, in
\* turn, at the sample's time
RECURSIVE AnalysedState(_, _)
AnalysedState(ms, i) ==
    IF i = 0
    THEN [metrics_history |-> <<>>, alerts |-> <<>>, baseline_metrics |-> <<>>]
    ELSE LET st == AnalysedState(ms, i - 1)
             h == Append(st.metrics_history, ms[i])
             r == analyze_metrics(h, st.alerts, st.baseline_metrics, ms[i].timestamp)
         IN  [metrics_history |-> h, alerts |-> r.alerts,
              baseline_metrics |-> r.baseline_metrics]

\* C23: in every state in which another task can run (a probe about to
\* append, a status report being taken), each sample of the history has had
\* its analysis pass: the alerts and the baselines are those of appending
\* and analysing the samples one after the other, and a status report
\* shows as many samples as were appended together with the baselines and
\* alerts of the pass of the last of them.
C23_AppendAndAnalysisAtomic ==
    LET st == AnalysedState(added, Len(added))
    IN  /\ metrics_history = st.metrics_history
        /\ alerts = st.alerts
        /\ baseline_metrics = st.baseline_metrics
        /\ last_op.op = "get_status_report" =>
               /\ last_op.result.total_metrics_collected = Len(added)
               /\ last_op.result.baseline_metrics = st.baseline_metrics
               /\ last_op.result.health_summary.baseline_metrics = st.baseline_metrics
               /\ last_op.result.recent_alerts = st.alerts

\* C23 witness: a status report was taken after the append of one probe of
\* the cycle (its pass has updated the baseline of its endpoint) while
\* another probe is still in flight.
C23_Witness ==
    /\ last_op.op = "get_status_report"
    /\ pc = "gather"
    /\ Len(added) = env.cycle_start + 1
    /\ \E i \in DOMAIN probes : probes[i].state = "inflight"
    /\ baseline_metrics[added[Len(added)].endpoint].last_updated = now

(***************************************************************************)
(* Claims about the insights and the reads                                 *)
(***************************************************************************)
HasInsight(r, text) == \E i \in 1..Len(r.insights) : r.insights[i].insight = text

\* the samples of w less than an hour old
WithinHour(w, t) == {i \in 1..Len(w) : t - w[i].timestamp < 3600}

\* C24: the health summary carries the insight "High activity detected in
\* the last hour" if and only if at least 80% of the samples of the health
\* window are less than an hour old, exactly 80% included.
C24_HighActivityFromEightyPercent ==
    IsHealthRead =>
        (HasInsight(last_op.result, "High activity detected in the last hour")
            <=> 5 * Cardinality(WithinHour(HealthWindow, now)) >= 4 * Len(HealthWindow))

IsRead(op) == op \in {"get_health_summary", "get_recent_alerts", "get_status_report"}

\* C25: a get_health_summary, get_recent_alerts or get_status_report call
\* leaves the history, the alert list, the baselines and monitoring_active
\* as they were, on an empty or a non-empty history.
C25_ReadsChangeNothing ==
    [][IsRead(last_op'.op) =>
          /\ metrics_history' = metrics_history
          /\ alerts' = alerts
          /\ baseline_metrics' = baseline_metrics
          /\ monitoring_active' = monitoring_active]_vars

\* C25 witness: a status report was taken from an agent holding samples,
\* alerts more than a day old and baselines.
C25_Witness ==
    /\ last_op.op = "get_status_report"
    /\ metrics_history # <<>>
    /\ alerts # <<>>
    /\ \A i \in 1..Len(alerts) : now - alerts[i].timestamp > 86400
    /\ DOMAIN baseline_metrics # {}

\* C26: the alerts stored by the analysis passes have pairwise distinct
\* ids, alerts created within one clock tick included.
C26_AlertIdsDistinct ==
    \A i, j \in 1..Len(alerts) : i # j => alerts[i].id # alerts[j].id

\* C26 witness: the log holds two alerts created in the same tick and two
\* alerts of the same title and endpoint created in different ticks.
C26_Witness ==
    /\ \E i, j \in 1..Len(alerts) : i # j /\ alerts[i].timestamp = alerts[j].timestamp
    /\ \E i, j \in 1..Len(alerts) :
           /\ i # j
           /\ alerts[i].title = alerts[j].title
           /\ alerts[i].endpoint = alerts[j].endpoint
           /\ alerts[i].timestamp # alerts[j].timestamp

\* the stored "High Error Rate Detected" alerts
ErrorAlerts(al) == SelectSeq(al, LAMBDA a : a.title = ERROR_TITLE)

\* C27: an analysis pass that finds a warning-level "High Error Rate
\* Detected" alert stored less than 300 seconds ago stores no alert of that
\* title, whatever the error rate of its window, so no critical one.
C27_WarningSuppressesCritical ==
    (/\ last_op.op = "add_metric"
     /\ \E i \in 1..Len(last_op.before) :
            /\ last_op.before[i].title = ERROR_TITLE
            /\ last_op.before[i].level = "warning"
            /\ now - last_op.before[i].timestamp < 300) =>
        /\ AppendedErrorAlerts = <<>>
        /\ ErrorAlerts(alerts) = ErrorAlerts(last_op.before)

\* C27 witness: after a pass the error rate of the window is above 0.10
\* and the only "High Error Rate Detected" alert of the log is a warning.
C27_Witness ==
    /\ last_op.op = "add_metric"
    /\ Len(metrics_history) >= 10
    /\ ErrorCount(Window) * 100 > 10 * Len(Window)
    /\ Len(ErrorAlerts(alerts)) = 1
    /\ ErrorAlerts(alerts)[1].level = "warning"

\* the samples of w recorded as errors by the collector
FlaggedErrors(w) == {i \in 1..Len(w) : w[i].error_count = 1}

\* C28: samples with status_code 0 count as no error: a pass stores a
\* "High Error Rate Detected" alert only if the samples with status_code
\* >= 400 exceed 5% of its window; the health summary reports as error rate
\* the fraction of samples with status_code >= 400 and the issue "High
\* error rate" only on that fraction; the baseline success_rate counts the
\* samples with status_code 0 as successes.
C28_StatusZeroIsNoError ==
    /\ (last_op.op = "add_metric" /\ Len(metrics_history) >= 10) =>
           /\ AppendedErrorAlerts # <<>> => ErrorRateOverThreshold(Window)
           /\ \A e \in EndpointsIn(Window) :
                  RatEq(baseline_metrics[e].success_rate,
                        <<Cardinality({i \in PositionsOf(Window, e) :
                                           Window[i].status_code \in {0, 200}}),
                          Cardinality(PositionsOf(Window, e))>>)
    /\ IsHealthRead =>
           /\ last_op.result.error_rate = <<ErrorCount(HealthWindow), Len(HealthWindow)>>
           /\ Has(last_op.result.issues, "High error rate")
                  <=> ErrorRateOverThreshold(HealthWindow)

\* C28 witness: after a pass on a window in which every sample is a failed
\* request (error_count 1, status_code 0), no alert is stored and the
\* success rate of the endpoint is 1: the error rate of the analysis, 0, is
\* below the fraction of samples with error_count 1.
C28_Witness ==
    /\ last_op.op = "add_metric"
    /\ Len(metrics_history) >= 10
    /\ Cardinality(FlaggedErrors(Window)) = Len(Window)
    /\ ErrorCount(Window) = 0
    /\ alerts = <<>>
    /\ \A e \in EndpointsIn(Window) :
           baseline_metrics[e].success_rate = <<Len(Window), Len(Window)>>

\* C29: a health summary read on a non-empty history while more than 5
\* alerts are stored has the issue "Multiple active alerts" and a score of
\* at most 85, whatever the ages of the alerts and the active_alerts it
\* reports; and the log, once above 5 alerts, stays above 5 until a
\* clear_old_alerts call.
C29_DeductionByTotalCount ==
    /\ []((IsHealthRead /\ Len(alerts) > 5) =>
             /\ Has(last_op.result.issues, "Multiple active alerts")
             /\ last_op.result.health_score <= 85)
    /\ [][(Len(alerts) > 5 /\ last_op'.op # "clear_old_alerts") => Len(alerts') > 5]_vars

\* C29 witness: a summary read 25 hours after the last sample: more than 5
\* alerts stored, none reported as active, the deduction applied.
C29_Witness ==
    /\ IsHealthRead
    /\ Len(alerts) > 5
    /\ last_op.result.active_alerts = 0
    /\ Has(last_op.result.issues, "Multiple active alerts")
    /\ last_op.result.health_score <= 85

\* the cycle to which the sample at position p of the add_metric calls
\* belongs if cycles do not overlap
BlockOf(p) == (p - 1) \div Len(Monitored) + 1

\* C30: with one run loop the samples of cycle k are all appended to the
\* history before any sample of cycle k+1: the add_metric calls fall into
\* consecutive blocks of one call per endpoint, block k made during cycle
\* k (at the clock of that cycle), the last block being that of the cycle
\* under way; the order of the endpoints within a block is free.
C30_CyclesDoNotOverlap ==
    /\ metrics_history = added
    /\ Len(added) <= env.cycles * Len(Monitored)
    /\ pc = "gather" => Len(added) >= (env.cycles - 1) * Len(Monitored)
    /\ pc \in {"sleep", "loop", "finally", "done"} =>
           Len(added) = env.cycles * Len(Monitored)
    /\ \A p \in 1..Len(added) :
           /\ added[p].timestamp = (BlockOf(p) - 1) * check_interval
           /\ \E i \in 1..Len(Monitored) : added[p].endpoint = Monitored[i]
           /\ \A q \in 1..Len(added) :
                  (q # p /\ BlockOf(q) = BlockOf(p)) =>
                      added[q].endpoint # added[p].endpoint

\* C30 witness: two cycles have run, the first appended its samples in the
\* reverse of the endpoint list, the second in the order of the list.
C30_Witness ==
    /\ Len(added) = 2 * Len(Monitored)
    /\ env.cycles = 2
    /\ added[1].endpoint = Monitored[2]
    /\ added[2].endpoint = Monitored[1]
    /\ added[Len(Monitored) + 1].endpoint = Monitored[1]
    /\ added[Len(Monitored) + 1].timestamp = check_interval

====
